---- MODULE Spec2Model ----
(***************************************************************************)
(* Model of the internships scraper bot: the table parser of               *)
(* src/sources/github.js in its two revisions (HTML-in-markdown rows and    *)
(* markdown pipe rows), the role/location filter, the sheet writer of       *)
(* src/sheets.js and the orchestrator main().                               *)
(*                                                                          *)
(* Text is a sequence of tokens: one-character strings, plus atoms for the  *)
(* glyphs and HTML entities the code treats specially.  A table cell is a   *)
(* sequence of items (plain text, anchor, markdown link, bold, line break). *)
(***************************************************************************)
EXTENDS Integers, Sequences, FiniteSets, TLC

VARIABLES
    dialect,      \* which revision of parseMarkdownTable runs: "html" or "md"
    doc,          \* the lines / <tr> blocks of the document scanned so far
    lastCompany,  \* parseMarkdownTable: let lastCompany
    inTable,      \* parseMarkdownTable (markdown revision): let inTable
    internships,  \* parseMarkdownTable: const internships = []
    filtered,     \* scrapeGitHubInternships: filteredInternships
    ppc,          \* position of the scrape: "scan", "parsed", "filtered"
    cellContent,  \* extractApplicationLink: its argument
    extractedLink,  \* extractApplicationLink: the value it returned
    lpc,          \* position of extractApplicationLink: "off", "call", "returned"
    store,        \* the rows of the first sheet of the spreadsheet
    store0,       \* the rows the sheet held when the behaviour began
    pc,           \* per addToSheet invocation: "idle", "connect", "read", "write"
    jobsArray,    \* per invocation: the argument
    snapshot,     \* per invocation: the rows of the sheet when it was called
    newJobs,      \* per invocation: const newJobs
    result,       \* per invocation: what it returned, or that it threw
    log,          \* the store operations of the invocations running or last run,
                  \* in the order they were issued
    history,      \* the last completed invocation and the one before it
    calls,        \* number of invocations begun
    mpc,          \* per main(): "off", "start", "fetch", "sheet", "done", "failed"
    fetches,      \* per main(): number of axios.get calls issued
    failed,       \* the stages that have thrown
    exited,       \* the process has ended
    exitStatus    \* its exit status, once it has ended

vars == <<dialect, doc, lastCompany, inTable, internships, filtered, ppc,
          cellContent, extractedLink, lpc,
          store, store0, pc, jobsArray, snapshot, newJobs, result, log, history,
          calls,
          mpc, fetches, failed, exited, exitStatus>>

linkVars == <<cellContent, extractedLink, lpc>>
parserVars == <<dialect, doc, lastCompany, inTable, internships, filtered, ppc,
                linkVars>>
sheetVars == <<store, store0, pc, jobsArray, snapshot, newJobs, result, log, history,
               calls>>
mainVars == <<mpc, fetches, failed, exited, exitStatus>>

-----------------------------------------------------------------------------
(* Bounds of the model *)

MaxLines == 3     \* lines of a scanned document
MaxRecords == 3   \* records handed to filterInternships on its own
MaxJobs == 2      \* jobs in one addToSheet argument
MaxRaceJobs == 1  \* jobs in the argument of each of two concurrent runs
MaxCalls == 2     \* addToSheet invocations in one behaviour
MaxRows == 2      \* rows the sheet holds initially
MaxItems == 3     \* items of an application cell handed to extractApplicationLink

-----------------------------------------------------------------------------
(* Generic sequence helpers *)

Range(s) == {s[i] : i \in 1..Len(s)}

\* String.prototype.includes: sub occurs as a contiguous run of s
Includes(s, sub) ==
    \E i \in 0..(Len(s) - Len(sub)) : SubSeq(s, i + 1, i + Len(sub)) = sub

\* all sequences over S of length at most n
SeqsUpTo(S, n) == UNION {[1..k -> S] : k \in 0..n}

\* Array.prototype.join(", ")
RECURSIVE Join(_)
Join(ss) ==
    IF ss = <<>> THEN <<>>
    ELSE IF Len(ss) = 1 THEN ss[1]
    ELSE ss[1] \o <<",", " ">> \o Join(Tail(ss))

-----------------------------------------------------------------------------
(* Glyphs, entities and the program's constants *)

LockGlyph == "LOCK"          \* the closed-application glyph
ContinuationMarker == "ARROW" \* the down-right arrow glyph
Whitespace == {" ", "\n"}

Software == <<"S","o","f","t","w","a","r","e">>
Engineer == <<"E","n","g","i","n","e","e","r">>
ROLE_KEYWORDS == <<Software, Engineer>>

NewYork == <<"N","e","w"," ","Y","o","r","k">>
SanFrancisco == <<"S","a","n"," ","F","r","a","n","c","i","s","c","o">>
Boston == <<"B","o","s","t","o","n">>
Houston == <<"H","o","u","s","t","o","n">>
Remote == <<"R","e","m","o","t","e">>
ALLOWED_LOCATIONS == <<NewYork, SanFrancisco, Boston, Houston, Remote>>

SimplifyHost == <<"simplify.jobs">>
UtmSource == "?utm_source"
SourceTag == <<"GitHub">>

UpperChars == <<"A","B","C","D","E","F","G","H","I","J","K","L","M",
                "N","O","P","Q","R","S","T","U","V","W","X","Y","Z">>
LowerChars == <<"a","b","c","d","e","f","g","h","i","j","k","l","m",
                "n","o","p","q","r","s","t","u","v","w","x","y","z">>

\* String.prototype.toLowerCase
toLowerCase(s) ==
    [i \in 1..Len(s) |->
        IF \E k \in 1..26 : UpperChars[k] = s[i]
        THEN LowerChars[CHOOSE k \in 1..26 : UpperChars[k] = s[i]]
        ELSE s[i]]

-----------------------------------------------------------------------------
(* Cell items *)

Txt(s) == [k |-> "txt", s |-> s, href |-> <<>>]
A(h, s) == [k |-> "a", s |-> s, href |-> h]       \* <a href="h">s</a>
Md(h, s) == [k |-> "md", s |-> s, href |-> h]     \* [s](h)
Bold(s) == [k |-> "bold", s |-> s, href |-> <<>>] \* **s**
Br == [k |-> "br", s |-> <<>>, href |-> <<>>]     \* </br> or <br>

\* String.prototype.includes(glyph) on the raw text of a cell
CellIncludes(cell, tok) ==
    \E i \in 1..Len(cell) : tok \in Range(cell[i].s) \cup Range(cell[i].href)

\* String.prototype.trim
RECURSIVE TrimLeft(_)
TrimLeft(s) ==
    IF s # <<>> /\ Head(s) \in Whitespace THEN TrimLeft(Tail(s)) ELSE s

RECURSIVE TrimRight(_)
TrimRight(s) ==
    IF s # <<>> /\ s[Len(s)] \in Whitespace
    THEN TrimRight(SubSeq(s, 1, Len(s) - 1)) ELSE s

trim(s) == TrimRight(TrimLeft(s))

\* .replace(/\s+/g, " ")
RECURSIVE CollapseWhitespace(_)
CollapseWhitespace(s) ==
    IF s = <<>> THEN <<>>
    ELSE IF Head(s) \in Whitespace
         THEN <<" ">> \o CollapseWhitespace(TrimLeft(s))
         ELSE <<Head(s)>> \o CollapseWhitespace(Tail(s))

\* href.split("?utm_source")[0]
RECURSIVE StripTracking(_)
StripTracking(url) ==
    IF url = <<>> \/ Head(url) = UtmSource THEN <<>>
    ELSE <<Head(url)>> \o StripTracking(Tail(url))

-----------------------------------------------------------------------------
(* cleanText, HTML revision (github.js 197-206) *)

\* .replace(/<[^>]*>/g, ""): tags go, their inner text stays; markdown syntax
\* is not touched by this revision
RECURSIVE StripTagsHtml(_)
StripTagsHtml(cell) ==
    IF cell = <<>> THEN <<>>
    ELSE LET it == Head(cell)
             txt == CASE it.k = "md" -> <<"[">> \o it.s \o <<"](">> \o it.href \o <<")">>
                      [] it.k = "bold" -> <<"**">> \o it.s \o <<"**">>
                      [] it.k = "br" -> <<>>
                      [] OTHER -> it.s
         IN txt \o StripTagsHtml(Tail(cell))

DecodeHtml(tok) ==
    CASE tok = "&amp;" -> "&"
      [] tok = "&lt;" -> "<"
      [] tok = "&gt;" -> ">"
      [] tok = "&nbsp;" -> " "
      [] OTHER -> tok

cleanTextHtml(cell) ==
    LET raw == StripTagsHtml(cell)
        decoded == [i \in 1..Len(raw) |-> DecodeHtml(raw[i])]
    IN trim(CollapseWhitespace(decoded))

(* cleanText, markdown revision (github.js 484-497) *)

\* tags go, [text](url) becomes text, **text** becomes text
RECURSIVE StripMarkupMd(_)
StripMarkupMd(cell) ==
    IF cell = <<>> THEN <<>>
    ELSE LET it == Head(cell)
             txt == CASE it.k = "md" /\ (it.s = <<>> \/ it.href = <<>>) ->
                            <<"[">> \o it.s \o <<"](">> \o it.href \o <<")">>
                      [] it.k = "bold" /\ it.s = <<>> -> <<"**", "**">>
                      [] it.k = "br" -> <<>>
                      [] OTHER -> it.s
         IN txt \o StripMarkupMd(Tail(cell))

DecodeMd(tok) ==
    CASE tok = "&apos;" -> "'"
      [] OTHER -> DecodeHtml(tok)

Flags == {"PASSPORT", "USFLAG"}

cleanTextMd(cell) ==
    LET raw == StripMarkupMd(cell)
        decoded == [i \in 1..Len(raw) |-> DecodeMd(raw[i])]
        noflags == SelectSeq(decoded, LAMBDA t : t \notin Flags)
    IN trim(CollapseWhitespace(noflags))

cleanText(d, cell) == IF d = "html" THEN cleanTextHtml(cell) ELSE cleanTextMd(cell)

-----------------------------------------------------------------------------
(* Cell extractors *)

\* cellContent.trim() === marker
IsMarkerCell(cell) ==
    /\ Len(cell) = 1
    /\ cell[1].k = "txt"
    /\ trim(cell[1].s) = <<ContinuationMarker>>

\* the items of kind k that the regular expression can match
ItemsOf(cell, k) == SelectSeq(cell, LAMBDA it : it.k = k /\ it.s # <<>>)
Hrefs(cell, k) == SelectSeq(cell, LAMBDA it : it.k = k /\ it.href # <<>>)

extractCompanyNameHtml(cell) ==
    IF IsMarkerCell(cell) THEN <<ContinuationMarker>>
    ELSE IF ItemsOf(cell, "a") # <<>>
         THEN cleanTextHtml(<<Txt(ItemsOf(cell, "a")[1].s)>>)
         ELSE cleanTextHtml(cell)

extractCompanyNameMd(cell) ==
    IF IsMarkerCell(cell) THEN <<ContinuationMarker>>
    ELSE IF ItemsOf(cell, "a") # <<>>
         THEN cleanTextMd(<<Txt(ItemsOf(cell, "a")[1].s)>>)
         ELSE IF SelectSeq(Hrefs(cell, "md"), LAMBDA it : it.s # <<>>) # <<>>
              THEN cleanTextMd(<<Txt(SelectSeq(Hrefs(cell, "md"),
                                               LAMBDA it : it.s # <<>>)[1].s)>>)
              ELSE cleanTextMd(cell)

extractCompanyName(d, cell) ==
    IF d = "html" THEN extractCompanyNameHtml(cell) ELSE extractCompanyNameMd(cell)

\* cellContent.split(/<\/br>|<br\s*\/?>|\n/i)
RECURSIVE SplitBr(_, _)
SplitBr(cell, cur) ==
    IF cell = <<>> THEN <<cur>>
    ELSE IF Head(cell).k = "br" THEN <<cur>> \o SplitBr(Tail(cell), <<>>)
    ELSE SplitBr(Tail(cell), Append(cur, Head(cell)))

extractLocation(d, cell) ==
    LET parts == SplitBr(cell, <<>>)
        cleaned == [i \in 1..Len(parts) |-> cleanText(d, parts[i])]
        locations == SelectSeq(cleaned, LAMBDA loc : Len(loc) > 0)
    IN Join(locations)

\* HTML revision: first anchor href off the aggregator host, tracking suffix
\* cut; else the first anchor href as it is; else empty
extractApplicationLinkHtml(cell) ==
    LET anchors == Hrefs(cell, "a")
        direct == SelectSeq(anchors, LAMBDA it : ~Includes(it.href, SimplifyHost))
    IN IF direct # <<>> THEN StripTracking(direct[1].href)
       ELSE IF anchors # <<>> THEN anchors[1].href
       ELSE <<>>

\* markdown revision: the lock glyph wins, then the first anchor, then the
\* first markdown link with a text
extractApplicationLinkMd(cell) ==
    LET anchors == Hrefs(cell, "a")
        mdlinks == SelectSeq(Hrefs(cell, "md"), LAMBDA it : it.s # <<>>)
    IN IF CellIncludes(cell, LockGlyph) THEN <<LockGlyph>>
       ELSE IF anchors # <<>> THEN StripTracking(anchors[1].href)
       ELSE IF mdlinks # <<>> THEN StripTracking(mdlinks[1].href)
       ELSE <<>>

extractApplicationLink(d, cell) ==
    IF d = "html" THEN extractApplicationLinkHtml(cell)
    ELSE extractApplicationLinkMd(cell)

-----------------------------------------------------------------------------
(* parseMarkdownTable: one iteration of the row loop, and the whole scan *)

MinCells == 4

\* the cells a line yields: <td> blocks (HTML) or the non-empty pipe-separated
\* cells (markdown)
CellsOf(d, line) ==
    IF d = "html" THEN line.cells
    ELSE SelectSeq(line.cells, LAMBDA c : Len(c) > 0)

\* the row acceptance test of the two revisions
Rejected(d, company, role, link, applicationCell) ==
    \/ company = <<>>
    \/ role = <<>>
    \/ link = <<>>
    \/ link = <<LockGlyph>>
    \/ d = "md" /\ CellIncludes(applicationCell, LockGlyph)

\* ProcessCells with lastCompany assigned after the acceptance test, so that
\* a rejected row is not remembered
ProcessCellsLateUpdate(d, st, cells) ==
    IF Len(cells) < MinCells THEN st
    ELSE LET name == extractCompanyName(d, cells[1])
             continuation == name = <<ContinuationMarker>> \/ name = <<>>
             company == IF continuation THEN st.lastCompany ELSE name
             role == cleanText(d, cells[2])
             location == extractLocation(d, cells[3])
             link == extractApplicationLink(d, cells[4])
             datePosted == IF Len(cells) >= 5 /\ cells[5] # <<>>
                           THEN cleanText(d, cells[5]) ELSE <<>>
             job == [company |-> company, role |-> role, location |-> location,
                     link |-> link, datePosted |-> datePosted, source |-> SourceTag]
         IN IF Rejected(d, company, role, link, cells[4])
            THEN st
            ELSE [st EXCEPT !.lastCompany = company,
                            !.internships = Append(st.internships, job)]

\* ProcessCells with the company read before the cell count test, so that a
\* short row is remembered
ProcessCellsEarlyCompany(d, st, cells) ==
    LET name == IF cells = <<>> THEN <<>> ELSE extractCompanyName(d, cells[1])
        continuation == name = <<ContinuationMarker>> \/ name = <<>>
        company == IF continuation THEN st.lastCompany ELSE name
    IN IF Len(cells) < MinCells THEN [st EXCEPT !.lastCompany = company]
       ELSE LET role == cleanText(d, cells[2])
                location == extractLocation(d, cells[3])
                link == extractApplicationLink(d, cells[4])
                datePosted == IF Len(cells) >= 5 /\ cells[5] # <<>>
                              THEN cleanText(d, cells[5]) ELSE <<>>
                job == [company |-> company, role |-> role, location |-> location,
                        link |-> link, datePosted |-> datePosted, source |-> SourceTag]
            IN IF Rejected(d, company, role, link, cells[4])
               THEN [st EXCEPT !.lastCompany = company]
               ELSE [st EXCEPT !.lastCompany = company,
                               !.internships = Append(st.internships, job)]

\* the body of the loop from the cell count test on
ProcessCells(d, st, cells) ==
    IF Len(cells) < MinCells THEN st
    ELSE LET name == extractCompanyName(d, cells[1])
             continuation == name = <<ContinuationMarker>> \/ name = <<>>
             company == IF continuation THEN st.lastCompany ELSE name
             last == IF continuation THEN st.lastCompany ELSE name
             role == cleanText(d, cells[2])
             location == extractLocation(d, cells[3])
             link == extractApplicationLink(d, cells[4])
             datePosted == IF Len(cells) >= 5 /\ cells[5] # <<>>
                           THEN cleanText(d, cells[5]) ELSE <<>>
             job == [company |-> company, role |-> role, location |-> location,
                     link |-> link, datePosted |-> datePosted, source |-> SourceTag]
         IN IF Rejected(d, company, role, link, cells[4])
            THEN [st EXCEPT !.lastCompany = last]
            ELSE [st EXCEPT !.lastCompany = last,
                            !.internships = Append(st.internships, job)]

\* HTML revision: only <tr> blocks are rows; a block with <th> is skipped
ProcessLineHtml(st, line) ==
    IF line.kind \notin {"header", "row"} THEN st
    ELSE IF line.kind = "header" THEN st
    ELSE ProcessCells("html", st, CellsOf("html", line))

\* markdown revision: header line, separator line, end of table, rows
ProcessLineMd(st, line) ==
    IF st.stopped THEN st
    ELSE IF line.kind = "header" THEN [st EXCEPT !.inTable = TRUE]
    ELSE IF line.kind = "sep" THEN st
    ELSE IF st.inTable /\ line.kind = "text" THEN [st EXCEPT !.stopped = TRUE]
    ELSE IF ~st.inTable \/ line.kind = "text" THEN st
    ELSE ProcessCells("md", st, CellsOf("md", line))

ProcessLine(d, st, line) ==
    IF d = "html" THEN ProcessLineHtml(st, line) ELSE ProcessLineMd(st, line)

ScanStart == [lastCompany |-> <<>>, inTable |-> FALSE, stopped |-> FALSE,
              internships |-> <<>>]

RECURSIVE Scan(_, _, _)
Scan(d, st, lines) ==
    IF lines = <<>> THEN st ELSE Scan(d, ProcessLine(d, st, Head(lines)), Tail(lines))

parseMarkdownTable(d, markdown) == Scan(d, ScanStart, markdown).internships

-----------------------------------------------------------------------------
(* filterInternships *)

roleMatches(internship) ==
    \E i \in 1..Len(ROLE_KEYWORDS) :
        Includes(toLowerCase(internship.role), toLowerCase(ROLE_KEYWORDS[i]))

locationMatches(internship) ==
    \E i \in 1..Len(ALLOWED_LOCATIONS) :
        Includes(toLowerCase(internship.location), toLowerCase(ALLOWED_LOCATIONS[i]))

\* the filter predicate with the two dimensions joined by "or"
KeepInternshipEither(internship) == roleMatches(internship) \/ locationMatches(internship)

KeepInternship(internship) == roleMatches(internship) /\ locationMatches(internship)

filterInternships(list) == SelectSeq(list, KeepInternship)

-----------------------------------------------------------------------------
(* The documents the scan is run on *)

Acme == <<"A","c","m","e">>
Beta == <<"B","e","t","a">>
Apply == <<"A","p","p","l","y">>
Intern == <<"I","n","t","e","r","n">>
UrlAcme == <<"https://acme.co/apply", UtmSource, "=x">>
UrlBeta == <<"https://beta.io/jobs">>
UrlSimplify == <<"https://", "simplify.jobs", "/p/1">>

MarkerCell == <<Txt(<<ContinuationMarker>>)>>
AcmeCell == <<A(UrlBeta, Acme)>>
BetaCell == <<Md(UrlBeta, Beta)>>
RoleCell == <<Txt(Software \o <<" ", " ">> \o Intern), Txt(<<"PASSPORT">>)>>
LocationCell == <<Txt(Boston), Br, Txt(<<"&nbsp;">> \o Remote)>>
DateCell == <<Txt(<<"J","u","n"," ","1">>)>>
AppOpen == <<A(UrlAcme, Apply)>>
AppLock == <<Txt(<<LockGlyph>>)>>
AppLockLink == <<Txt(<<LockGlyph>>), A(UrlAcme, Apply)>>
AppMd == <<Md(UrlBeta, Apply)>>

Row(cells) == [kind |-> "row", cells |-> cells]
HeaderLine == [kind |-> "header", cells |-> <<>>]
SeparatorLine == [kind |-> "sep", cells |-> <<>>]
TextLine == [kind |-> "text", cells |-> <<>>]

FullRows ==
    {Row(<<c, RoleCell, LocationCell, a, DateCell>>) :
        c \in {MarkerCell, AcmeCell, BetaCell}, a \in {AppOpen, AppLock}}

ShortRow == Row(<<BetaCell, RoleCell, LocationCell>>)

Lines ==
    FullRows \cup
    { ShortRow,
      Row(<<AcmeCell, RoleCell, LocationCell, AppLockLink, DateCell>>),
      Row(<<BetaCell, RoleCell, LocationCell, AppMd>>),
      Row(<<<<>>, RoleCell, LocationCell, AppOpen, DateCell>>),
      Row(<<AcmeCell, <<Br>>, LocationCell, AppOpen, DateCell>>),
      HeaderLine, SeparatorLine, TextLine }

\* the records filterInternships is run on by itself
RoleTexts ==
    { <<"S","O","F","T","W","A","R","E">>,
      <<"M","L"," ">> \o toLowerCase(Engineer),
      <<"S","o","f","t","w","a","r">>,
      <<"D","a","t","a">> }

LocationTexts ==
    { toLowerCase(Remote),
      Boston \o <<",", " ">> \o <<"M","A">>,
      <<"A","u","s","t","i","n">> }

FilterInputs ==
    { [company |-> Acme, role |-> r, location |-> l, link |-> UrlBeta,
       datePosted |-> <<>>, source |-> SourceTag] : r \in RoleTexts, l \in LocationTexts }

-----------------------------------------------------------------------------
(* States of the parts that are not running *)

Procs == {1, 2}
Mains == {"index", "github"}

NoArg == [given |-> FALSE, list |-> <<>>]
NoResult == [kind |-> "none", added |-> 0, duplicates |-> 0]

SheetIdle ==
    /\ store = <<>>
    /\ store0 = <<>>
    /\ pc = [p \in Procs |-> "idle"]
    /\ jobsArray = [p \in Procs |-> NoArg]
    /\ snapshot = [p \in Procs |-> [rows |-> <<>>, at |-> 0]]
    /\ newJobs = [p \in Procs |-> <<>>]
    /\ result = [p \in Procs |-> NoResult]
    /\ log = <<>>
    /\ history = <<>>
    /\ calls = 0

MainIdle ==
    /\ mpc = [m \in Mains |-> "off"]
    /\ fetches = [m \in Mains |-> 0]
    /\ failed = {}
    /\ exited = FALSE
    /\ exitStatus = 0

LinkIdle ==
    /\ cellContent = <<>>
    /\ extractedLink = <<>>
    /\ lpc = "off"

ParserIdle ==
    /\ LinkIdle
    /\ dialect = "md"
    /\ doc = <<>>
    /\ lastCompany = <<>>
    /\ inTable = FALSE
    /\ internships = <<>>
    /\ filtered = <<>>
    /\ ppc = "off"

-----------------------------------------------------------------------------
(* The scrape, step by step: scan of the lines, then the filter *)

InitParse ==
    /\ dialect \in {"html", "md"}
    /\ doc = <<>>
    /\ lastCompany = <<>>
    /\ inTable = FALSE
    /\ internships = <<>>
    /\ filtered = <<>>
    /\ ppc = "scan"
    /\ LinkIdle
    /\ SheetIdle
    /\ MainIdle

\* one iteration of for (const line of lines)
ParseLine ==
    /\ ppc = "scan"
    /\ Len(doc) < MaxLines
    /\ \E line \in Lines :
        LET st == [lastCompany |-> lastCompany, inTable |-> inTable,
                   stopped |-> FALSE, internships |-> internships]
            nxt == ProcessLine(dialect, st, line)
        IN /\ doc' = Append(doc, line)
           /\ lastCompany' = nxt.lastCompany
           /\ inTable' = nxt.inTable
           /\ internships' = nxt.internships
           /\ ppc' = IF nxt.stopped THEN "parsed" ELSE "scan"
    /\ UNCHANGED <<dialect, filtered, linkVars, sheetVars, mainVars>>

\* the loop runs out of lines: return internships
ParseReturn ==
    /\ ppc = "scan"
    /\ ppc' = "parsed"
    /\ UNCHANGED <<dialect, doc, lastCompany, inTable, internships, filtered,
                   linkVars, sheetVars, mainVars>>

\* const filteredInternships = filterInternships(internships)
Filter ==
    /\ ppc = "parsed"
    /\ filtered' = filterInternships(internships)
    /\ ppc' = "filtered"
    /\ UNCHANGED <<dialect, doc, lastCompany, inTable, internships,
                   linkVars, sheetVars, mainVars>>

NextParse == ParseLine \/ ParseReturn \/ Filter

SpecParse == InitParse /\ [][NextParse]_vars

InitFilter ==
    /\ dialect = "md"
    /\ doc = <<>>
    /\ lastCompany = <<>>
    /\ inTable = FALSE
    /\ internships \in SeqsUpTo(FilterInputs, MaxRecords)
    /\ filtered = <<>>
    /\ ppc = "parsed"
    /\ LinkIdle
    /\ SheetIdle
    /\ MainIdle

NextFilter == Filter

SpecFilter == InitFilter /\ [][NextFilter]_vars

-----------------------------------------------------------------------------
(* extractApplicationLink on an application cell by itself *)

\* what an application cell is made of: anchors and markdown links on a direct
\* host and on the aggregator host, plain text, the lock glyph
LinkItems ==
    { A(UrlAcme, Apply), A(UrlSimplify, Apply),
      Md(UrlBeta, Apply), Md(UrlSimplify \o <<UtmSource, "=y">>, Apply),
      Txt(Apply), Txt(<<LockGlyph>>) }

LinkCells == SeqsUpTo(LinkItems, MaxItems)

InitLink ==
    /\ dialect \in {"html", "md"}
    /\ doc = <<>>
    /\ lastCompany = <<>>
    /\ inTable = FALSE
    /\ internships = <<>>
    /\ filtered = <<>>
    /\ ppc = "off"
    /\ cellContent \in LinkCells
    /\ extractedLink = <<>>
    /\ lpc = "call"
    /\ SheetIdle
    /\ MainIdle

\* const link = extractApplicationLink(applicationCell)
ExtractLink ==
    /\ lpc = "call"
    /\ extractedLink' = extractApplicationLink(dialect, cellContent)
    /\ lpc' = "returned"
    /\ UNCHANGED <<dialect, doc, lastCompany, inTable, internships, filtered, ppc,
                   cellContent, sheetVars, mainVars>>

NextLink == ExtractLink

SpecLink == InitLink /\ [][NextLink]_vars

\* the targets of the links of a cell, in cell order: anchors, and in the
\* markdown dialect markdown links as well
LinkTargets(d, cell) ==
    LET items == SelectSeq(cell, LAMBDA it :
                     it.href # <<>> /\ (it.k = "a" \/ (d = "md" /\ it.k = "md")))
    IN [i \in 1..Len(items) |-> items[i].href]

\* the first target off the aggregator host, else the first target, else none
PreferredLink(d, cell) ==
    LET links == LinkTargets(d, cell)
        direct == SelectSeq(links, LAMBDA url : ~Includes(url, SimplifyHost))
    IN IF direct # <<>> THEN direct[1]
       ELSE IF links # <<>> THEN links[1]
       ELSE <<>>

\* C11: for an application cell without the lock glyph, the extracted link is
\* (up to its tracking suffix) the first link in cell order whose target is
\* not on the aggregator host; the aggregator link only when the cell has no
\* direct link; empty only when the cell has no link; in both dialects.
C11_FirstDirectLinkPreferred ==
    (lpc = "returned" /\ ~CellIncludes(cellContent, LockGlyph)) =>
        StripTracking(extractedLink) =
            StripTracking(PreferredLink(dialect, cellContent))

-----------------------------------------------------------------------------
(* Properties of the scan *)

\* line j of lines is a row of the table
IsTableRow(d, lines, j) ==
    /\ lines[j].kind = "row"
    /\ d = "md" => \E h \in 1..(j - 1) : lines[h].kind = "header"

\* the last ParseLine step read a row with a continuation marker as its
\* company cell and emitted a record for it
EmittedContinuation ==
    /\ ppc = "scan" /\ ppc' = "scan"
    /\ Len(doc') = Len(doc) + 1
    /\ IsTableRow(dialect, doc', Len(doc'))
    /\ CellsOf(dialect, doc'[Len(doc')]) # <<>>
    /\ IsMarkerCell(CellsOf(dialect, doc'[Len(doc')])[1])
    /\ Len(internships') = Len(internships) + 1

\* rows before the one just read whose company cell is neither the marker
\* nor empty, whatever became of them
NamedRows(d, lines) ==
    {j \in 1..Len(lines) :
        /\ IsTableRow(d, lines, j)
        /\ lines[j].cells # <<>>
        /\ lines[j].cells[1] # <<>>
        /\ ~IsMarkerCell(lines[j].cells[1])}

\* the same, among the rows that yielded at least MinCells cells and whose
\* extracted company name is neither the marker nor empty
RememberedRows(d, lines) ==
    {j \in 1..Len(lines) :
        /\ IsTableRow(d, lines, j)
        /\ Len(CellsOf(d, lines[j])) >= MinCells
        /\ extractCompanyName(d, CellsOf(d, lines[j])[1])
              \notin {<<ContinuationMarker>>, <<>>}}

Max(S) == CHOOSE x \in S : \A y \in S : y <= x

\* C5 as stated: a record emitted from a continuation row carries the company
\* of the nearest preceding row whose company cell is neither the marker nor
\* empty, whether that row was emitted, rejected or skipped.
C5_ContinuationNearestAnyRow ==
    [][EmittedContinuation /\ NamedRows(dialect, doc) # {} =>
         internships'[Len(internships')].company =
             extractCompanyName(dialect, doc[Max(NamedRows(dialect, doc))].cells[1])]_vars

\* C5 amended: a record emitted from a continuation row carries the company
\* extracted from the nearest preceding row of the table that yielded at
\* least four cells and whose extracted company name is neither the marker
\* nor empty, whether that row was emitted or rejected.
C5_ContinuationNearestProcessedRow ==
    [][EmittedContinuation =>
         /\ RememberedRows(dialect, doc) # {}
         /\ internships'[Len(internships')].company =
                extractCompanyName(dialect,
                    CellsOf(dialect, doc[Max(RememberedRows(dialect, doc))])[1])]_vars

\* C5 witness: a continuation row was emitted right after a row that was
\* rejected as closed, and carries that row's company
C5_Witness ==
    /\ ppc = "scan"
    /\ Len(doc) = 2
    /\ doc[1] = Row(<<AcmeCell, RoleCell, LocationCell, AppLock, DateCell>>)
    /\ doc[2] = Row(<<MarkerCell, RoleCell, LocationCell, AppOpen, DateCell>>)
    /\ Len(internships) = 1
    /\ internships[1].company = Acme

\* C6 as stated: a row whose application cell carries the lock glyph never
\* yields a record, with or without a link in the cell.
C6_LockedRowNeverEmitted ==
    [][(/\ ppc = "scan"
        /\ Len(doc') = Len(doc) + 1
        /\ doc'[Len(doc')].kind = "row"
        /\ Len(CellsOf(dialect, doc'[Len(doc')])) >= MinCells
        /\ CellIncludes(CellsOf(dialect, doc'[Len(doc')])[4], LockGlyph))
       => internships' = internships]_vars

\* the lines of the prefix that are not rows yielding fewer than MinCells cells
IsShortRow(d, line) == line.kind = "row" /\ Len(CellsOf(d, line)) < MinCells
WithoutShortRows(d, lines) == SelectSeq(lines, LAMBDA l : ~IsShortRow(d, l))

\* C7: a row that yields fewer than four cells emits nothing and does not stop
\* the scan: the records emitted so far are those the scan emits on the same
\* lines with the short rows taken out.
C7_ShortRowSkipped ==
    (\E i \in 1..Len(doc) : IsShortRow(dialect, doc[i])) =>
        LET without == Scan(dialect, ScanStart, WithoutShortRows(dialect, doc))
        IN /\ internships = without.internships
           /\ lastCompany = without.lastCompany
           /\ inTable = without.inTable
           /\ ppc = "scan" => ~without.stopped

\* C7 witness: a row was emitted after a short row of the table
C7_Witness ==
    /\ ppc = "scan"
    /\ Len(doc) = 3
    /\ IsTableRow(dialect, doc, 2) /\ IsShortRow(dialect, doc[2])
    /\ IsTableRow(dialect, doc, 3) /\ ~IsShortRow(dialect, doc[3])
    /\ Len(internships) >
          Len(parseMarkdownTable(dialect, SubSeq(doc, 1, 2)))

-----------------------------------------------------------------------------
(* Properties of the filter *)

SameLetter(a, b) ==
    a = b \/ \E k \in 1..26 : {a, b} = {UpperChars[k], LowerChars[k]}

\* word occurs in text, letter case aside
ContainsIgnoringCase(text, word) ==
    \E off \in 0..(Len(text) - Len(word)) :
        \A j \in 1..Len(word) : SameLetter(text[off + j], word[j])

Passes(r) ==
    /\ \E i \in 1..Len(ROLE_KEYWORDS) : ContainsIgnoringCase(r.role, ROLE_KEYWORDS[i])
    /\ \E i \in 1..Len(ALLOWED_LOCATIONS) :
           ContainsIgnoringCase(r.location, ALLOWED_LOCATIONS[i])

\* out is the subsequence, in order, of the elements of in that pass
IsPassingSubsequence(in, out) ==
    LET idx == {i \in 1..Len(in) : Passes(in[i])}
    IN /\ Len(out) = Cardinality(idx)
       /\ \A i \in idx : out[Cardinality({j \in idx : j <= i})] = in[i]

\* C8: filterInternships returns, in the original order, exactly the records
\* whose role contains a role keyword and whose location contains an allowed
\* location, letter case aside, and leaves its input as it was.
C8_FilterExactSubsequence ==
    [][ppc = "parsed" /\ ppc' = "filtered" =>
         /\ IsPassingSubsequence(internships, filtered')
         /\ internships' = internships]_vars

\* C8 witness: of three records the first and the third passed, the second
\* failed on one dimension only
C8_Witness ==
    /\ ppc = "filtered"
    /\ Len(internships) = 3
    /\ Len(filtered) = 2
    /\ filtered[1] = internships[1] /\ filtered[2] = internships[3]
    /\ filtered[1] # filtered[2]
    /\ internships[2].role = <<"S","O","F","T","W","A","R","E">>
    /\ internships[2].location = <<"A","u","s","t","i","n">>

-----------------------------------------------------------------------------
(* addToSheet (sheets.js): the sheet, its rows and the function's steps *)

LinkA == <<"https://acme.co/apply">>
LinkB == UrlBeta
Today == <<"2026-01-01">>

BlankRow ==
    [Company |-> <<>>, Role |-> <<>>, Location |-> <<>>, ApplicationLink |-> <<>>,
     DatePosted |-> <<>>, Source |-> <<>>, DateAdded |-> <<>>,
     Link |-> <<>>, link |-> <<>>, URL |-> <<>>, url |-> <<>>]

Job(company, link) ==
    [company |-> company, role |-> Engineer, location |-> Remote,
     link |-> link, datePosted |-> <<>>, source |-> SourceTag]

\* a || b on strings: the empty string is falsy
OrElse(a, b) == IF a # <<>> THEN a ELSE b

\* row.get("Application Link") || row.get("Link") || ... || row.get("url")
RowLink(row) ==
    OrElse(row.ApplicationLink,
        OrElse(row.Link, OrElse(row.link, OrElse(row.URL, row.url))))

\* const existingLinks = new Set(); ... if (link) existingLinks.add(link)
ExistingLinks(rows) == {RowLink(rows[i]) : i \in 1..Len(rows)} \ {<<>>}

\* NewJobs without the duplicate test
NewJobsUnfiltered(jobs, existingLinks) == jobs

\* jobsArray.filter((job) => !existingLinks.has(job.link))
NewJobs(jobs, existingLinks) ==
    SelectSeq(jobs, LAMBDA job : job.link \notin existingLinks)

\* newJobs.map((job) => ({ Company: ..., "Date Added": today }))
rowsToAdd(jobs) ==
    [i \in 1..Len(jobs) |->
        [BlankRow EXCEPT !.Company = jobs[i].company,
                         !.Role = jobs[i].role,
                         !.Location = jobs[i].location,
                         !.ApplicationLink = jobs[i].link,
                         !.DatePosted = OrElse(jobs[i].datePosted, <<>>),
                         !.Source = jobs[i].source,
                         !.DateAdded = Today]]

\* AppendRows writing from the first row of the sheet on
AppendRowsFromTop(rows, added) ==
    added \o SubSeq(rows, Len(added) + 1, Len(rows))

\* AppendRows leaving out the rows whose link the sheet holds by now
AppendRowsIfAbsent(rows, added) ==
    rows \o SelectSeq(added, LAMBDA r : r.ApplicationLink \notin ExistingLinks(rows))

\* await sheet.addRows(rowsToAdd)
AppendRows(rows, added) == rows \o added

\* IsEmptyArg without the length test
IsMissingArg(arg) == ~arg.given

\* !jobsArray || jobsArray.length === 0
IsEmptyArg(arg) == ~arg.given \/ Len(arg.list) = 0

Returned(added, duplicates) ==
    [kind |-> "returned", added |-> added, duplicates |-> duplicates]
Threw == [kind |-> "threw", added |-> 0, duplicates |-> 0]

\* the last completed invocation, if any
Recent == IF history = <<>> THEN <<>> ELSE <<history[Len(history)]>>

\* the history with one more completed invocation
Remember(entry) == Append(Recent, entry)

\* the store operations invocation p issued since it was called, given the log
OpsSince(p, lg) ==
    LET mine == SelectSeq(SubSeq(lg, snapshot[p].at + 1, Len(lg)), LAMBDA e : e.p = p)
    IN [i \in 1..Len(mine) |-> mine[i].op]

\* the record of invocation p as it completes
Completed(p, res, nj, after, lg) ==
    [p |-> p, arg |-> jobsArray[p], before |-> snapshot[p].rows, after |-> after,
     result |-> res, ops |-> OpsSince(p, lg)]

Issue(p, op) == Append(log, [p |-> p, op |-> op])

\* the log without the operations of the earlier invocation of p
Forget(p) == SelectSeq(log, LAMBDA e : e.p # p)

\* addToSheet(arg) is called: the guard of lines 43-46, then the code up to
\* the first await
CallStep(p, arg) ==
    /\ pc[p] = "idle"
    /\ calls < MaxCalls
    /\ calls' = calls + 1
    /\ log' = Forget(p)
    /\ jobsArray' = [jobsArray EXCEPT ![p] = arg]
    /\ snapshot' = [snapshot EXCEPT ![p] = [rows |-> store, at |-> Len(Forget(p))]]
    /\ newJobs' = [newJobs EXCEPT ![p] = <<>>]
    /\ IF IsEmptyArg(arg)
       THEN /\ result' = [result EXCEPT ![p] = Returned(0, 0)]
            /\ history' = Remember(
                   [p |-> p, arg |-> arg, before |-> store, after |-> store,
                    result |-> Returned(0, 0), ops |-> <<>>])
            /\ pc' = pc
       ELSE /\ result' = [result EXCEPT ![p] = NoResult]
            /\ history' = Recent
            /\ pc' = [pc EXCEPT ![p] = "connect"]
    /\ UNCHANGED <<store, store0>>

\* await doc.loadInfo() resolves
LoadInfoStep(p) ==
    /\ pc[p] = "connect"
    /\ log' = Issue(p, "loadInfo")
    /\ pc' = [pc EXCEPT ![p] = "read"]
    /\ UNCHANGED <<store, store0, jobsArray, snapshot, newJobs, result, history, calls>>

\* an awaited store operation rejects: catch, log, rethrow
ThrowStep(p, op, after) ==
    /\ log' = Issue(p, op)
    /\ store' = after
    /\ result' = [result EXCEPT ![p] = Threw]
    /\ history' = Remember( Completed(p, Threw, newJobs[p], after, Issue(p, op)))
    /\ pc' = [pc EXCEPT ![p] = "idle"]
    /\ UNCHANGED <<store0, jobsArray, snapshot, newJobs, calls>>

LoadInfoFailStep(p) == pc[p] = "connect" /\ ThrowStep(p, "loadInfo", store)

\* await sheet.getRows() resolves; the duplicate test; the early return
GetRowsStep(p) ==
    /\ pc[p] = "read"
    /\ log' = Issue(p, "getRows")
    /\ LET existingLinks == ExistingLinks(store)
           fresh == NewJobs(jobsArray[p].list, existingLinks)
           duplicateCount == Len(jobsArray[p].list) - Len(fresh)
       IN /\ newJobs' = [newJobs EXCEPT ![p] = fresh]
          /\ IF Len(fresh) = 0
             THEN /\ result' = [result EXCEPT ![p] = Returned(0, duplicateCount)]
                  /\ history' = Remember(
                         Completed(p, Returned(0, duplicateCount), fresh, store,
                                   Issue(p, "getRows")))
                  /\ pc' = [pc EXCEPT ![p] = "idle"]
             ELSE /\ UNCHANGED <<result, history>>
                  /\ pc' = [pc EXCEPT ![p] = "write"]
    /\ UNCHANGED <<store, store0, jobsArray, snapshot, calls>>

GetRowsFailStep(p) == pc[p] = "read" /\ ThrowStep(p, "getRows", store)

\* await sheet.addRows(rowsToAdd) resolves; return the counts
AddRowsStep(p) ==
    /\ pc[p] = "write"
    /\ log' = Issue(p, "addRows")
    /\ LET after == AppendRows(store, rowsToAdd(newJobs[p]))
           res == Returned(Len(newJobs[p]),
                           Len(jobsArray[p].list) - Len(newJobs[p]))
       IN /\ store' = after
          /\ result' = [result EXCEPT ![p] = res]
          /\ history' = Remember(
                 Completed(p, res, newJobs[p], after, Issue(p, "addRows")))
    /\ pc' = [pc EXCEPT ![p] = "idle"]
    /\ UNCHANGED <<store0, jobsArray, snapshot, newJobs, calls>>

\* the append request rejects; the sheet may or may not have taken the rows
AddRowsFailStep(p) ==
    /\ pc[p] = "write"
    /\ \E after \in {store, AppendRows(store, rowsToAdd(newJobs[p]))} :
           ThrowStep(p, "addRows", after)

Call(p, arg) == CallStep(p, arg) /\ UNCHANGED <<parserVars, mainVars>>
LoadInfo(p) == LoadInfoStep(p) /\ UNCHANGED <<parserVars, mainVars>>
LoadInfoFail(p) == LoadInfoFailStep(p) /\ UNCHANGED <<parserVars, mainVars>>
GetRows(p) == GetRowsStep(p) /\ UNCHANGED <<parserVars, mainVars>>
GetRowsFail(p) == GetRowsFailStep(p) /\ UNCHANGED <<parserVars, mainVars>>
AddRows(p) == AddRowsStep(p) /\ UNCHANGED <<parserVars, mainVars>>
AddRowsFail(p) == AddRowsFailStep(p) /\ UNCHANGED <<parserVars, mainVars>>

\* the job lists and the sheets the function is run on
Jobs == {Job(Beta, LinkA), Job(Acme, LinkB)}
ArgsUpTo(n) == {NoArg} \cup {[given |-> TRUE, list |-> l] : l \in SeqsUpTo(Jobs, n)}
Args == ArgsUpTo(MaxJobs)
RaceArgs == ArgsUpTo(MaxRaceJobs)

InitialRows ==
    { [BlankRow EXCEPT !.Company = Acme, !.ApplicationLink = LinkA, !.DateAdded = Today],
      [BlankRow EXCEPT !.Company = Acme, !.URL = LinkB],
      BlankRow }

\* the Application Link values of the rows are pairwise distinct
DistinctLinks(rows) ==
    \A i, j \in 1..Len(rows) :
        i # j => rows[i].ApplicationLink # rows[j].ApplicationLink

InitialStores == {rows \in SeqsUpTo(InitialRows, MaxRows) : DistinctLinks(rows)}

InitSheet ==
    /\ ParserIdle
    /\ MainIdle
    /\ store \in InitialStores
    /\ store0 = store
    /\ pc = [p \in Procs |-> "idle"]
    /\ jobsArray = [p \in Procs |-> NoArg]
    /\ snapshot = [p \in Procs |-> [rows |-> <<>>, at |-> 0]]
    /\ newJobs = [p \in Procs |-> <<>>]
    /\ result = [p \in Procs |-> NoResult]
    /\ log = <<>>
    /\ history = <<>>
    /\ calls = 0

\* one caller, one invocation at a time
NextSheet ==
    \/ \E arg \in Args : Call(1, arg)
    \/ LoadInfo(1)
    \/ LoadInfoFail(1)
    \/ GetRows(1)
    \/ GetRowsFail(1)
    \/ AddRows(1)
    \/ AddRowsFail(1)

SpecSheet == InitSheet /\ [][NextSheet]_vars

\* two runs against the same sheet, each calling addToSheet once, their
\* awaits interleaved
NextRace ==
    \E p \in Procs :
        \/ \E arg \in RaceArgs : Call(p, arg) /\ jobsArray[p] = NoArg /\ result[p] = NoResult
        \/ LoadInfo(p)
        \/ LoadInfoFail(p)
        \/ GetRows(p)
        \/ GetRowsFail(p)
        \/ AddRows(p)
        \/ AddRowsFail(p)

SpecRace == InitSheet /\ [][NextRace]_vars

-----------------------------------------------------------------------------
(* Properties of addToSheet, one invocation at a time *)

\* every value a row holds in a link column
LinkValues(rows) ==
    UNION {{rows[i].ApplicationLink, rows[i].Link, rows[i].link,
            rows[i].URL, rows[i].url} : i \in 1..Len(rows)} \ {<<>>}

JobLinks(jobs) == {jobs[i].link : i \in 1..Len(jobs)}

IsPrefix(a, b) == Len(a) <= Len(b) /\ SubSeq(b, 1, Len(a)) = a

\* entries i and i + 1 of the history are two calls in sequence with the same
\* non-empty list, none of whose links the sheet held, and both returned
TwiceInSequence(i) ==
    /\ history[i].arg = history[i + 1].arg
    /\ history[i].arg.given
    /\ Len(history[i].arg.list) > 0
    /\ JobLinks(history[i].arg.list) \cap LinkValues(history[i].before) = {}
    /\ history[i].after = history[i + 1].before
    /\ history[i].result.kind = "returned"
    /\ history[i + 1].result.kind = "returned"

\* C1: addToSheet is idempotent on link: called twice in sequence with the
\* same non-empty list of N jobs whose links the sheet does not hold, it
\* returns added = N, then added = 0 and duplicates = N, and the second call
\* appends no row.
C1_IdempotentOnLink ==
    \A i \in 1..(Len(history) - 1) :
        TwiceInSequence(i) =>
            LET n == Len(history[i].arg.list)
            IN /\ history[i].result.added = n
               /\ Len(history[i].after) = Len(history[i].before) + n
               /\ history[i + 1].result = Returned(0, n)
               /\ history[i + 1].after = history[i + 1].before
               /\ "addRows" \notin Range(history[i + 1].ops)

\* C1 witness: two jobs were added by a first call and found duplicate by a
\* second call with the same list
C1_Witness ==
    /\ Len(history) = 2
    /\ TwiceInSequence(1)
    /\ history[1].result = Returned(2, 0)
    /\ history[2].result = Returned(0, 2)
    /\ Len(store) = Len(store0) + 2

\* C2 as stated: after any sequence of calls, one at a time, on a sheet whose
\* Application Link values were pairwise distinct, the sheet holds at most one
\* row per link value.
C2_AtMostOneRowPerLink ==
    \A i, j \in 1..Len(store) :
        (i # j /\ store[i].ApplicationLink # <<>>) =>
            store[i].ApplicationLink # store[j].ApplicationLink

\* C3: called with an empty or missing list, addToSheet returns added = 0 and
\* duplicates = 0 and issues no store operation: no connection, no read, no
\* append.
C3_EmptyListNoStoreOperation ==
    \A i \in 1..Len(history) :
        (~history[i].arg.given \/ history[i].arg.list = <<>>) =>
            /\ history[i].result = Returned(0, 0)
            /\ history[i].ops = <<>>
            /\ history[i].after = history[i].before

\* C3 witness: a call with an empty list and a call with no list completed
C3_Witness ==
    /\ Len(history) = 2
    /\ history[1].arg = [given |-> TRUE, list |-> <<>>]
    /\ history[2].arg = NoArg
    /\ history[2].result = Returned(0, 0)
    /\ log = <<>>

\* the rows a completed call added below the rows the sheet held
AppendedBy(h) == SubSeq(h.after, Len(h.before) + 1, Len(h.after))

\* C4: addToSheet only appends: the rows the sheet held before a call are
\* there, unchanged and in place, after it; no row is written for a job whose
\* link an existing row holds, whatever its other fields; and when every job
\* is a duplicate no write is issued.
C4_AppendOnly ==
    /\ IsPrefix(store0, store)
    /\ \A i \in 1..Len(history) :
          LET h == history[i]
              held == {h.before[k].ApplicationLink : k \in 1..Len(h.before)}
          IN /\ IsPrefix(h.before, h.after)
             /\ \A k \in 1..Len(AppendedBy(h)) :
                   AppendedBy(h)[k].ApplicationLink \notin held
             /\ (h.arg.given /\ JobLinks(h.arg.list) \subseteq held) =>
                   /\ "addRows" \notin Range(h.ops)
                   /\ h.after = h.before

\* C4 witness: a call whose jobs were one duplicate of an existing row, with
\* another company, and one new job appended one row below the existing one
C4_Witness ==
    /\ Len(history) = 1
    /\ history[1].before = <<[BlankRow EXCEPT !.Company = Acme,
                                              !.ApplicationLink = LinkA,
                                              !.DateAdded = Today]>>
    /\ history[1].arg.list = <<Job(Beta, LinkA), Job(Acme, LinkB)>>
    /\ history[1].result = Returned(1, 1)
    /\ Len(store) = 2
    /\ store[1] = history[1].before[1]
    /\ store[2].ApplicationLink = LinkB

-----------------------------------------------------------------------------
(* Properties of two concurrent runs *)

\* position in the log of the operation op of invocation p (0 if not issued)
LogIndex(p, op) ==
    IF \E i \in 1..Len(log) : log[i] = [p |-> p, op |-> op]
    THEN CHOOSE i \in 1..Len(log) : log[i] = [p |-> p, op |-> op]
    ELSE 0

\* both runs returned, and both read the rows before either appended
BothReadBeforeEitherAppended ==
    /\ Len(history) = 2
    /\ history[1].p # history[2].p
    /\ history[1].result.kind = "returned"
    /\ history[2].result.kind = "returned"
    /\ \A p \in Procs : LogIndex(p, "getRows") > 0
    /\ \A p, q \in Procs :
          LogIndex(q, "addRows") > 0 => LogIndex(p, "getRows") < LogIndex(q, "addRows")

RowsWithLink(rows, l) == {i \in 1..Len(rows) : rows[i].ApplicationLink = l}

\* C10: two concurrent runs are not isolated: when both read the rows before
\* either appends, a link both lists carry and the sheet did not hold is
\* reported as added by both, and the sheet ends with two rows carrying it.
C10_RaceDuplicatesLink ==
    BothReadBeforeEitherAppended =>
        \A l \in (JobLinks(history[1].arg.list) \cap JobLinks(history[2].arg.list))
                    \ ExistingLinks(store0) :
            /\ \A i \in 1..2 :
                  /\ l \in JobLinks(newJobs[history[i].p])
                  /\ history[i].result.added >= 1
            /\ Cardinality(RowsWithLink(store, l)) >= 2

\* C10 witness: both runs were given the one job, both read the empty sheet,
\* both reported one job added, and the sheet holds the link twice
C10_Witness ==
    /\ BothReadBeforeEitherAppended
    /\ store0 = <<>>
    /\ \A i \in 1..2 :
          /\ history[i].arg.list = <<Job(Acme, LinkB)>>
          /\ history[i].before = <<>>
          /\ history[i].result = Returned(1, 0)
    /\ Len(store) = 2
    /\ store[1].ApplicationLink = LinkB
    /\ store[2].ApplicationLink = LinkB

-----------------------------------------------------------------------------
(* The orchestrator: main() of the entry point, which awaits                *)
(* scrapeGitHubInternships() and then addToSheet(jobs); and the main() that  *)
(* github.js itself calls when it is loaded, which only scrapes and prints.  *)

\* process.exit(0) in the catch block
CatchExitSuccess == 1 - 1

\* process.exit(1) in the catch block of main()
CatchExit == 1

OpenRow(company, app) == Row(<<company, RoleCell, LocationCell, app, DateCell>>)

Feeds ==
    { <<HeaderLine, SeparatorLine, OpenRow(AcmeCell, AppOpen), OpenRow(MarkerCell, AppMd)>>,
      <<HeaderLine, SeparatorLine, OpenRow(AcmeCell, AppLock), TextLine>> }

InitRun ==
    /\ dialect \in {"html", "md"}
    /\ doc = <<>>
    /\ lastCompany = <<>>
    /\ inTable = FALSE
    /\ internships = <<>>
    /\ filtered = <<>>
    /\ ppc = "off"
    /\ LinkIdle
    /\ store \in InitialStores
    /\ store0 = store
    /\ pc = [p \in Procs |-> "idle"]
    /\ jobsArray = [p \in Procs |-> NoArg]
    /\ snapshot = [p \in Procs |-> [rows |-> <<>>, at |-> 0]]
    /\ newJobs = [p \in Procs |-> <<>>]
    /\ result = [p \in Procs |-> NoResult]
    /\ log = <<>>
    /\ history = <<>>
    /\ calls = 0
    /\ mpc = [m \in Mains |-> "start"]
    /\ fetches = [m \in Mains |-> 0]
    /\ failed = {}
    /\ exited = FALSE
    /\ exitStatus = 0

\* main() is called and reaches await axios.get(GITHUB_RAW_URL); the module
\* github.js is evaluated, and calls its main(), before the entry point's body
StartMain(m) ==
    /\ ~exited
    /\ mpc[m] = "start"
    /\ m = "index" => mpc["github"] # "start"
    /\ mpc' = [mpc EXCEPT ![m] = "fetch"]
    /\ fetches' = [fetches EXCEPT ![m] = fetches[m] + 1]
    /\ UNCHANGED <<parserVars, sheetVars, failed, exited, exitStatus>>

\* the entry point's fetch resolves: parse, filter, return; main() calls
\* addToSheet(jobs), which runs to its first await or returns at once
FetchOkIndex ==
    /\ ~exited
    /\ mpc["index"] = "fetch"
    /\ \E feed \in Feeds :
        LET scanned == Scan(dialect, ScanStart, feed)
            jobs == filterInternships(parseMarkdownTable(dialect, feed))
        IN /\ doc' = feed
           /\ lastCompany' = scanned.lastCompany
           /\ inTable' = scanned.inTable
           /\ internships' = scanned.internships
           /\ filtered' = jobs
           /\ ppc' = "filtered"
           /\ CallStep(1, [given |-> TRUE, list |-> jobs])
           /\ mpc' = [mpc EXCEPT !["index"] = IF Len(jobs) = 0 THEN "done" ELSE "sheet"]
    /\ UNCHANGED <<dialect, linkVars, fetches, failed, exited, exitStatus>>

\* the fetch of the main() of github.js resolves: it prints what it found
FetchOkGithub ==
    /\ ~exited
    /\ mpc["github"] = "fetch"
    /\ mpc' = [mpc EXCEPT !["github"] = "done"]
    /\ UNCHANGED <<parserVars, sheetVars, fetches, failed, exited, exitStatus>>

\* a fetch rejects: catch and rethrow in scrapeGitHubInternships, catch in
\* main(), process.exit(1); an append in flight may still reach the sheet
FetchFail(m) ==
    /\ ~exited
    /\ mpc[m] = "fetch"
    /\ mpc' = [mpc EXCEPT ![m] = "failed"]
    /\ failed' = failed \cup {<<m, "fetch">>}
    /\ exited' = TRUE
    /\ exitStatus' = CatchExit
    /\ store' \in IF pc[1] = "write"
                  THEN {store, AppendRows(store, rowsToAdd(newJobs[1]))}
                  ELSE {store}
    /\ UNCHANGED <<parserVars, store0, pc, jobsArray, snapshot, newJobs, result,
                   log, history, calls, fetches>>

RunLoadInfo ==
    /\ ~exited
    /\ mpc["index"] = "sheet"
    /\ LoadInfoStep(1)
    /\ UNCHANGED <<parserVars, mainVars>>

\* the rows arrive; when no job is new addToSheet returns and main() ends
RunGetRows ==
    /\ ~exited
    /\ mpc["index"] = "sheet"
    /\ GetRowsStep(1)
    /\ mpc' = [mpc EXCEPT !["index"] = IF pc'[1] = "idle" THEN "done" ELSE "sheet"]
    /\ UNCHANGED <<parserVars, fetches, failed, exited, exitStatus>>

\* the rows are appended, addToSheet returns the counts and main() ends
RunAddRows ==
    /\ ~exited
    /\ mpc["index"] = "sheet"
    /\ AddRowsStep(1)
    /\ mpc' = [mpc EXCEPT !["index"] = "done"]
    /\ UNCHANGED <<parserVars, fetches, failed, exited, exitStatus>>

\* a store operation rejects: catch and rethrow in addToSheet, catch in
\* main(), process.exit(1)
RunSheetFail ==
    /\ ~exited
    /\ mpc["index"] = "sheet"
    /\ \/ LoadInfoFailStep(1) /\ failed' = failed \cup {<<"index", "loadInfo">>}
       \/ GetRowsFailStep(1) /\ failed' = failed \cup {<<"index", "getRows">>}
       \/ AddRowsFailStep(1) /\ failed' = failed \cup {<<"index", "addRows">>}
    /\ mpc' = [mpc EXCEPT !["index"] = "failed"]
    /\ exited' = TRUE
    /\ exitStatus' = CatchExit
    /\ UNCHANGED <<parserVars, fetches>>

\* nothing is pending any more: the process ends with status 0
ExitClean ==
    /\ ~exited
    /\ \A m \in Mains : mpc[m] = "done"
    /\ exited' = TRUE
    /\ exitStatus' = 0
    /\ UNCHANGED <<parserVars, sheetVars, mpc, fetches, failed>>

NextRun ==
    \/ \E m \in Mains : StartMain(m)
    \/ FetchOkIndex
    \/ FetchOkGithub
    \/ \E m \in Mains : FetchFail(m)
    \/ RunLoadInfo
    \/ RunGetRows
    \/ RunAddRows
    \/ RunSheetFail
    \/ ExitClean

SpecRun == InitRun /\ [][NextRun]_vars

-----------------------------------------------------------------------------
(* Properties of an orchestrator run *)

Issued(op) == Cardinality({i \in 1..Len(log) : log[i].op = op})

====
